---- MODULE Spec2Model ----
\* Model of the onnxruntime-rs session lifecycle (SessionBuilder::build,
\* Session::read_inputs / read_input, the shared environment) and of the
\* dynamically-typed output tensor extraction (DynOrtTensor::try_extract,
\* OrtOwnedTensor::new, TensorPointerHolder::drop).
EXTENDS Integers, Sequences, FiniteSets, TLC

\* ---------------------------------------------------------------------------
\* Bounds
\* ---------------------------------------------------------------------------
NumThreads == 2
NumInputs == 2
MaxExtract == 3
MaxRank == 2
MaxDim == 2

Threads == 1..NumThreads

\* Model file paths handed to SessionBuilder (model_filename) and what the
\* file system / text encoding say about them.
Paths == {"model.onnx", "missing.onnx", "latin1_\\xff.onnx", "nul_\\0.onnx"}
\* Path::exists() cannot stat a path with an interior NUL: it reports false.
Exists(p) == p \notin {"missing.onnx", "nul_\\0.onnx"}
IsUtf8(p) == p # "latin1_\\xff.onnx"
HasNul(p) == p = "nul_\\0.onnx"

\* A native call either reports success (null status) or an error status.
Status == {"ok", "fail"}

NoResult == [kind |-> "none"]
Err(k) == [kind |-> k]
OkRes == [kind |-> "Ok"]
\* Error of kind k from the map_err after native call `call` (the call is
\* recorded to tell which status produced the error).
ErrAt(k, call) == [kind |-> k, call |-> call]
WithCudaPanic == [kind |-> "panic", site |-> "with_cuda"]
FileDoesNotExists(p) == [kind |-> "FileDoesNotExists", filename |-> p]
NonUtf8Path(p) == [kind |-> "NonUtf8Path", path |-> p]

\* A native call returning a handle: success, error status, or success with a
\* null handle (a broken native contract).
HandleStatus == {"ok", "fail", "null"}

\* i16 values a host can pass to with_number_threads (default 1).
NumThreadsInputs == {-32768, -1, 0, 1, 32767}

\* `as i32` on an i16: sign extension, the value is kept.
I16AsI32(n) == n

\* Nothing decoded yet for the current input.
NoInput == [index |-> -1, code |-> -1, input_type |-> "none", numdims |-> -1,
            ndims |-> <<>>, dimensions |-> <<>>]

VARIABLES
  \* --- shared environment (Arc<Mutex<NamedEnv>>) ---
  lock,        \* holder of the environment mutex, 0 = free
  envRef,      \* number of owners of the environment
  envLive,     \* native OrtEnv alive
  userEnv,     \* the host's Environment handle still held
  \* --- SessionBuilder::build, one per thread ---
  bpc,         \* position in build
  bPath,       \* model_filename of the builder
  bWithOpts,   \* options set through with_options
  bRes,        \* result of build
  optsAlloc,   \* CreateSessionOptions handles obtained
  optsRel,     \* ReleaseSessionOptions calls
  createCalls, \* CreateSession calls
  \* --- Session ---
  sess,        \* "none" | "live" | "dropped"
  sessPtr,     \* session_ptr (0 = null)
  allocPtr,    \* allocator_ptr (0 = null)
  sessRel,     \* ReleaseSession calls on session_ptr
  allocRel,    \* release calls on allocator_ptr
  \* --- Session::read_inputs ---
  rpc,         \* position in read_inputs / read_input
  rCount,      \* num_input_nodes
  rIdx,        \* current input index i
  rRes,        \* result of read_inputs
  tiAcq,       \* type-info handles obtained from SessionGetInputTypeInfo
  tiRel,       \* ReleaseTypeInfo calls
  rCur,        \* what read_input has decoded for the current index
  rAcc,        \* Inputs collected so far by read_inputs
  rList,       \* Vec<Input> returned by read_inputs
  rCalled,     \* indices i for which read_input made native calls, in order
  rNull,       \* a native call of read_inputs broke its contract (null/0)
  \* --- build: values handed to the native API ---
  intraThreads, \* values passed to SetIntraOpNumThreads
  bNull,       \* a native call of build reported success with a null handle
  \* --- DynOrtTensor and its TensorPointerHolder ---
  dyn,         \* [data_type, shape, tensor_data]
  alive,       \* the DynOrtTensor (and its TensorData) not yet dropped
  holderPtr,   \* TensorPointerHolder.tensor_ptr: "value" or "null"
  valueRel,    \* ReleaseValue calls on the output value
  nExtract,    \* try_extract calls made
  lastReq,     \* element type of the last requested T
  lastRes,     \* result of the last try_extract
  views        \* views returned by successful try_extract calls

sessVars == <<lock, envRef, envLive, userEnv, bpc, bPath, bWithOpts, bRes,
              optsAlloc, optsRel, createCalls, sess, sessPtr, allocPtr,
              sessRel, allocRel, rpc, rCount, rIdx, rRes, tiAcq, tiRel,
              rCur, rAcc, rList, rCalled, rNull, intraThreads, bNull>>

readGhost == <<rCur, rAcc, rList, rCalled, rNull>>

buildGhost == <<intraThreads, bNull>>

tensVars == <<dyn, alive, holderPtr, valueRel, nExtract, lastReq, lastRes, views>>

vars == <<sessVars, tensVars>>

SessInit ==
  /\ lock = 0
  /\ envRef = 1
  /\ envLive = TRUE
  /\ userEnv = TRUE
  /\ bpc = [t \in Threads |-> "idle"]
  /\ bPath = [t \in Threads |-> "model.onnx"]
  /\ bWithOpts = [t \in Threads |-> FALSE]
  /\ bRes = [t \in Threads |-> NoResult]
  /\ optsAlloc = [t \in Threads |-> 0]
  /\ optsRel = [t \in Threads |-> 0]
  /\ createCalls = [t \in Threads |-> 0]
  /\ sess = [t \in Threads |-> "none"]
  /\ sessPtr = [t \in Threads |-> 0]
  /\ allocPtr = [t \in Threads |-> 0]
  /\ sessRel = [t \in Threads |-> 0]
  /\ allocRel = [t \in Threads |-> 0]
  /\ rpc = [t \in Threads |-> "idle"]
  /\ rCount = [t \in Threads |-> 0]
  /\ rIdx = [t \in Threads |-> 0]
  /\ rRes = [t \in Threads |-> NoResult]
  /\ tiAcq = [t \in Threads |-> 0]
  /\ tiRel = [t \in Threads |-> 0]
  /\ rCur = [t \in Threads |-> NoInput]
  /\ rAcc = [t \in Threads |-> <<>>]
  /\ rList = [t \in Threads |-> <<>>]
  /\ rCalled = [t \in Threads |-> <<>>]
  /\ rNull = [t \in Threads |-> FALSE]
  /\ intraThreads = [t \in Threads |-> {}]
  /\ bNull = [t \in Threads |-> FALSE]

\* The output tensor part does not move while sessions are built.
TensInitial ==
  /\ dyn = [data_type |-> "Float", shape |-> <<1>>,
            tensor_data |-> [kind |-> "TensorPtr", elems |-> <<1>>]]
  /\ alive = TRUE
  /\ holderPtr = "value"
  /\ valueRel = 0
  /\ nExtract = 0
  /\ lastReq = "none"
  /\ lastRes = NoResult
  /\ views = {}

\* ---------------------------------------------------------------------------
\* Shared environment (env.rs): reference-counted, mutated under the mutex
\* ---------------------------------------------------------------------------

\* Environment::new_session_builder: clones the Arc<Mutex<NamedEnv>> into a
\* SessionBuilder configured with a model path and, possibly, with_options.
NewSessionBuilder(t) ==
  /\ userEnv /\ lock = 0
  /\ bpc[t] = "idle"
  /\ \E p \in Paths, wo \in BOOLEAN :
       /\ bPath' = [bPath EXCEPT ![t] = p]
       /\ bWithOpts' = [bWithOpts EXCEPT ![t] = wo]
  /\ envRef' = envRef + 1
  /\ bpc' = [bpc EXCEPT ![t] = "opts"]
  /\ UNCHANGED <<lock, envLive, userEnv, bRes, optsAlloc, optsRel, createCalls,
                 sess, sessPtr, allocPtr, sessRel, allocRel, rpc, rCount, rIdx,
                 rRes, tiAcq, tiRel>>
  /\ UNCHANGED <<tensVars, readGhost, buildGhost>>

\* Dropping the host's Environment: decrement, tear down the native context at 0.
DropEnvironment ==
  /\ userEnv /\ lock = 0
  /\ \A u \in Threads : rpc[u] # "aborted"
  /\ userEnv' = FALSE
  /\ envRef' = envRef - 1
  /\ envLive' = (envRef - 1 > 0)
  /\ UNCHANGED <<lock, bpc, bPath, bWithOpts, bRes, optsAlloc, optsRel,
                 createCalls, sess, sessPtr, allocPtr, sessRel, allocRel, rpc,
                 rCount, rIdx, rRes, tiAcq, tiRel>>
  /\ UNCHANGED <<tensVars, readGhost, buildGhost>>

\* ---------------------------------------------------------------------------
\* SessionBuilder::build (session.rs 62-125)
\* ---------------------------------------------------------------------------

\* SessionBuilder::with_cuda (46-50) is unimplemented!(): the panic unwinds
\* before build and drops the builder (and its environment reference).
WithCuda(t) ==
  /\ bpc[t] = "opts"
  /\ bRes' = [bRes EXCEPT ![t] = WithCudaPanic]
  /\ bpc' = [bpc EXCEPT ![t] = "ret"]
  /\ UNCHANGED <<lock, envRef, envLive, userEnv, bPath, bWithOpts, optsAlloc,
                 optsRel, createCalls, sess, sessPtr, allocPtr, sessRel,
                 allocRel, rpc, rCount, rIdx, rRes, tiAcq, tiRel>>
  /\ UNCHANGED <<tensVars, readGhost, buildGhost>>

\* Lines 63-82: CreateSessionOptions; with_options is unimplemented!(); then
\* SetIntraOpNumThreads and SetSessionGraphOptimizationLevel (no status read).
BuildCreateOptions(t) ==
  /\ bpc[t] = "opts"
  /\ \E st \in HandleStatus :
       CASE st = "fail" ->
              /\ bRes' = [bRes EXCEPT ![t] = ErrAt("SessionOptions", "CreateSessionOptions")]
              /\ bpc' = [bpc EXCEPT ![t] = "ret"]
              /\ UNCHANGED <<optsAlloc, intraThreads, bNull>>
         [] st = "null" ->
              /\ bNull' = [bNull EXCEPT ![t] = TRUE]
              /\ bRes' = [bRes EXCEPT ![t] = Err("panic")]
              /\ bpc' = [bpc EXCEPT ![t] = "ret"]
              /\ UNCHANGED <<optsAlloc, intraThreads>>
         [] st = "ok" ->
              /\ optsAlloc' = [optsAlloc EXCEPT ![t] = @ + 1]
              /\ UNCHANGED bNull
              /\ IF bWithOpts[t]
                 THEN /\ bRes' = [bRes EXCEPT ![t] = Err("panic")]
                      /\ bpc' = [bpc EXCEPT ![t] = "ret"]
                      /\ UNCHANGED intraThreads
                 ELSE /\ \E n \in NumThreadsInputs :
                           intraThreads' = [intraThreads EXCEPT ![t] = @ \cup {I16AsI32(n)}]
                      /\ bpc' = [bpc EXCEPT ![t] = "lock"]
                      /\ UNCHANGED bRes
  /\ UNCHANGED <<lock, envRef, envLive, userEnv, bPath, bWithOpts, optsRel,
                 createCalls, sess, sessPtr, allocPtr, sessRel, allocRel, rpc,
                 rCount, rIdx, rRes, tiAcq, tiRel>>
  /\ UNCHANGED <<tensVars, readGhost>>

\* Line 84: self.inner.lock().unwrap() -- the guard is a temporary of the
\* statement that reads env_ptr.
BuildLockEnv(t) ==
  /\ bpc[t] = "lock"
  /\ lock = 0
  /\ lock' = t
  /\ bpc' = [bpc EXCEPT ![t] = "unlock"]
  /\ UNCHANGED <<envRef, envLive, userEnv, bPath, bWithOpts, bRes, optsAlloc,
                 optsRel, createCalls, sess, sessPtr, allocPtr, sessRel,
                 allocRel, rpc, rCount, rIdx, rRes, tiAcq, tiRel>>
  /\ UNCHANGED <<tensVars, readGhost, buildGhost>>

\* Line 84: end of statement, the MutexGuard temporary is dropped.
BuildUnlockEnv(t) ==
  /\ bpc[t] = "unlock"
  /\ lock' = 0
  /\ bpc' = [bpc EXCEPT ![t] = "exists"]
  /\ UNCHANGED <<envRef, envLive, userEnv, bPath, bWithOpts, bRes, optsAlloc,
                 optsRel, createCalls, sess, sessPtr, allocPtr, sessRel,
                 allocRel, rpc, rCount, rIdx, rRes, tiAcq, tiRel>>
  /\ UNCHANGED <<tensVars, readGhost, buildGhost>>

\* Variant without the existence check before CreateSession.
BuildExists_skipped(t) ==
  /\ bpc[t] = "exists"
  /\ bpc' = [bpc EXCEPT ![t] = "path"]
  /\ UNCHANGED <<lock, envRef, envLive, userEnv, bPath, bWithOpts, bRes,
                 optsAlloc, optsRel, createCalls, sess, sessPtr, allocPtr,
                 sessRel, allocRel, rpc, rCount, rIdx, rRes, tiAcq, tiRel>>
  /\ UNCHANGED <<tensVars, readGhost, buildGhost>>

\* Lines 87-91: the model file must exist.
BuildExists(t) ==
  /\ bpc[t] = "exists"
  /\ IF ~Exists(bPath[t])
     THEN /\ bRes' = [bRes EXCEPT ![t] = FileDoesNotExists(bPath[t])]
          /\ bpc' = [bpc EXCEPT ![t] = "ret"]
     ELSE /\ bpc' = [bpc EXCEPT ![t] = "path"]
          /\ UNCHANGED bRes
  /\ UNCHANGED <<lock, envRef, envLive, userEnv, bPath, bWithOpts, optsAlloc,
                 optsRel, createCalls, sess, sessPtr, allocPtr, sessRel,
                 allocRel, rpc, rCount, rIdx, rRes, tiAcq, tiRel>>
  /\ UNCHANGED <<tensVars, readGhost, buildGhost>>

\* Lines 92-100: to_str() (NonUtf8Path) and CString::new (NulError -> OrtError).
BuildPath(t) ==
  /\ bpc[t] = "path"
  /\ IF ~IsUtf8(bPath[t])
     THEN /\ bRes' = [bRes EXCEPT ![t] = NonUtf8Path(bPath[t])]
          /\ bpc' = [bpc EXCEPT ![t] = "ret"]
     ELSE IF HasNul(bPath[t])
     THEN /\ bRes' = [bRes EXCEPT ![t] = Err("CStringNulError")]
          /\ bpc' = [bpc EXCEPT ![t] = "ret"]
     ELSE /\ bpc' = [bpc EXCEPT ![t] = "create"]
          /\ UNCHANGED bRes
  /\ UNCHANGED <<lock, envRef, envLive, userEnv, bPath, bWithOpts, optsAlloc,
                 optsRel, createCalls, sess, sessPtr, allocPtr, sessRel,
                 allocRel, rpc, rCount, rIdx, rRes, tiAcq, tiRel>>
  /\ UNCHANGED <<tensVars, readGhost, buildGhost>>

\* Lines 102-109: the native CreateSession call starts ...
BuildCreateSessionCall(t) ==
  /\ bpc[t] = "create"
  /\ createCalls' = [createCalls EXCEPT ![t] = @ + 1]
  /\ bpc' = [bpc EXCEPT ![t] = "creating"]
  /\ UNCHANGED <<lock, envRef, envLive, userEnv, bPath, bWithOpts, bRes,
                 optsAlloc, optsRel, sess, sessPtr, allocPtr, sessRel,
                 allocRel, rpc, rCount, rIdx, rRes, tiAcq, tiRel>>
  /\ UNCHANGED <<tensVars, readGhost, buildGhost>>

\* ... and returns (lines 110-112).
BuildCreateSessionReturn(t) ==
  /\ bpc[t] = "creating"
  /\ \E st \in HandleStatus :
       CASE st = "fail" ->
              /\ bRes' = [bRes EXCEPT ![t] = ErrAt("Session", "CreateSession")]
              /\ bpc' = [bpc EXCEPT ![t] = "ret"]
              /\ UNCHANGED <<sessPtr, bNull>>
         [] st = "null" ->
              /\ bNull' = [bNull EXCEPT ![t] = TRUE]
              /\ bRes' = [bRes EXCEPT ![t] = Err("panic")]
              /\ bpc' = [bpc EXCEPT ![t] = "ret"]
              /\ UNCHANGED sessPtr
         [] st = "ok" ->
              /\ sessPtr' = [sessPtr EXCEPT ![t] = 100 + t]
              /\ bpc' = [bpc EXCEPT ![t] = "allocator"]
              /\ UNCHANGED <<bRes, bNull>>
  /\ UNCHANGED <<lock, envRef, envLive, userEnv, bPath, bWithOpts, optsAlloc,
                 optsRel, createCalls, sess, allocPtr, sessRel, allocRel, rpc,
                 rCount, rIdx, rRes, tiAcq, tiRel>>
  /\ UNCHANGED <<tensVars, readGhost, intraThreads>>

\* Lines 114-124: GetAllocatorWithDefaultOptions, then Ok(Session { .. }).
BuildAllocator(t) ==
  /\ bpc[t] = "allocator"
  /\ \E st \in HandleStatus :
       CASE st = "fail" ->
              /\ bRes' = [bRes EXCEPT ![t] = ErrAt("Allocator", "GetAllocatorWithDefaultOptions")]
              /\ UNCHANGED <<allocPtr, sess, bNull>>
         [] st = "null" ->
              /\ bNull' = [bNull EXCEPT ![t] = TRUE]
              /\ bRes' = [bRes EXCEPT ![t] = Err("panic")]
              /\ UNCHANGED <<allocPtr, sess>>
         [] st = "ok" ->
              /\ allocPtr' = [allocPtr EXCEPT ![t] = 200 + t]
              /\ sess' = [sess EXCEPT ![t] = "live"]
              /\ bRes' = [bRes EXCEPT ![t] = OkRes]
              /\ UNCHANGED bNull
  /\ bpc' = [bpc EXCEPT ![t] = "ret"]
  /\ UNCHANGED <<lock, envRef, envLive, userEnv, bPath, bWithOpts, optsAlloc,
                 optsRel, createCalls, sessPtr, sessRel, allocRel, rpc,
                 rCount, rIdx, rRes, tiAcq, tiRel>>
  /\ UNCHANGED <<tensVars, readGhost, intraThreads>>

\* build(self) consumed the builder: on return its Arc<Mutex<NamedEnv>> is
\* dropped (env.rs: decrement under the mutex, tear down at 0).
BuilderDrop(t) ==
  /\ bpc[t] = "ret"
  /\ lock = 0
  /\ envRef' = envRef - 1
  /\ envLive' = (envRef - 1 > 0)
  /\ bpc' = [bpc EXCEPT ![t] = "done"]
  /\ UNCHANGED <<lock, userEnv, bPath, bWithOpts, bRes, optsAlloc, optsRel,
                 createCalls, sess, sessPtr, allocPtr, sessRel, allocRel, rpc,
                 rCount, rIdx, rRes, tiAcq, tiRel>>
  /\ UNCHANGED <<tensVars, readGhost, buildGhost>>

\* Session has no Drop implementation: dropping it calls no release function.
DropSession(t) ==
  /\ sess[t] = "live"
  /\ rpc[t] \in {"idle", "done"}
  /\ sess' = [sess EXCEPT ![t] = "dropped"]
  /\ UNCHANGED <<lock, envRef, envLive, userEnv, bpc, bPath, bWithOpts, bRes,
                 optsAlloc, optsRel, createCalls, sessPtr, allocPtr, sessRel,
                 allocRel, rpc, rCount, rIdx, rRes, tiAcq, tiRel>>
  /\ UNCHANGED <<tensVars, readGhost, buildGhost>>

\* ---------------------------------------------------------------------------
\* Session::read_inputs / read_input (session.rs 129-230)
\* ---------------------------------------------------------------------------

rUnchanged == UNCHANGED <<lock, envRef, envLive, userEnv, bpc, bPath, bWithOpts,
                          bRes, optsAlloc, optsRel, createCalls, sess, sessPtr,
                          allocPtr, sessRel, allocRel, tensVars, buildGhost>>

\* read_input's fatal assertions (assert_ne!): the call panics.
ReadPanic(t) ==
  /\ rRes' = [rRes EXCEPT ![t] = Err("panic")]
  /\ rNull' = [rNull EXCEPT ![t] = TRUE]
  /\ rpc' = [rpc EXCEPT ![t] = "done"]

\* An error status propagated with `?` out of read_input and read_inputs.
ReadFail(t, k, call) ==
  /\ rRes' = [rRes EXCEPT ![t] = ErrAt(k, call)]
  /\ rpc' = [rpc EXCEPT ![t] = "done"]
  /\ UNCHANGED rNull

\* TensorElementDataType codes (ONNXTensorElementDataType) the enum declares,
\* and codes GetTensorElementType can report.
RecognizedCodes == {1, 2, 3, 4, 5, 6, 7, 8, 11, 12, 13}
ElemCodes == {0, 1, 7, 8, 99}
CodeToType(c) ==
  CASE c = 1 -> "Float" [] c = 7 -> "Int64" [] c = 8 -> "String"
    [] c \in RecognizedCodes \ {1, 7, 8} -> "Other"

\* std::mem::transmute of the code (line 189): a declared code gives its
\* variant; any other code is undefined behaviour: a debug build aborts the
\* process ("abort": invalid enum value check), a release build may read the
\* bits back as any variant or as an invalid value.
Transmute(c) ==
  IF c \in RecognizedCodes THEN {CodeToType(c)}
  ELSE {"Float", "Int64", "String", "Other", "invalid", "abort"}

\* Dimension values GetDimensions can report (negative = symbolic/dynamic).
DimVals == {-1, 3}

\* `d as u32` on an i64 (line 220): keeps the low 32 bits, written as its
\* two 16-bit halves (hi * 2^16 + lo).
AsU32(d) ==
  LET lo == d % 65536
  IN [hi |-> ((d - lo) \div 65536) % 65536, lo |-> lo]

\* read_inputs(&self) borrows a live Session.
ReadInputsStart(t) ==
  /\ sess[t] = "live"
  /\ rpc[t] = "idle"
  /\ rpc' = [rpc EXCEPT ![t] = "count"]
  /\ rUnchanged
  /\ UNCHANGED <<rCount, rIdx, rRes, tiAcq, tiRel, readGhost>>

\* Variant mapping SessionGetInputCount's error status to InputName.
ReadInputsCount_misKind(t) ==
  /\ rpc[t] = "count"
  /\ \/ /\ ReadFail(t, "InputName", "SessionGetInputCount")
        /\ UNCHANGED <<rCount, rIdx>>
     \/ \E n \in 0..NumInputs :
          IF n = 0
          THEN /\ ReadPanic(t)
               /\ UNCHANGED <<rCount, rIdx>>
          ELSE /\ rCount' = [rCount EXCEPT ![t] = n]
               /\ rIdx' = [rIdx EXCEPT ![t] = 0]
               /\ rpc' = [rpc EXCEPT ![t] = "name"]
               /\ UNCHANGED <<rRes, rNull>>
  /\ rUnchanged
  /\ UNCHANGED <<tiAcq, tiRel, rCur, rAcc, rList, rCalled>>

\* read_inputs_count (129-138): SessionGetInputCount, error -> Allocator,
\* a zero count fails assert_ne!.
ReadInputsCount(t) ==
  /\ rpc[t] = "count"
  /\ \/ /\ ReadFail(t, "Allocator", "SessionGetInputCount")
        /\ UNCHANGED <<rCount, rIdx>>
     \/ \E n \in 0..NumInputs :
          IF n = 0
          THEN /\ ReadPanic(t)
               /\ UNCHANGED <<rCount, rIdx>>
          ELSE /\ rCount' = [rCount EXCEPT ![t] = n]
               /\ rIdx' = [rIdx EXCEPT ![t] = 0]
               /\ rpc' = [rpc EXCEPT ![t] = "name"]
               /\ UNCHANGED <<rRes, rNull>>
  /\ rUnchanged
  /\ UNCHANGED <<tiAcq, tiRel, rCur, rAcc, rList, rCalled>>

\* read_input line 161 -> read_input_name (140-158): SessionGetInputName
\* (error -> InputName, null name -> assert_ne!), then char_p_to_string.
ReadInputName(t) ==
  /\ rpc[t] = "name"
  /\ rCalled' = [rCalled EXCEPT ![t] = Append(@, rIdx[t])]
  /\ rCur' = [rCur EXCEPT ![t] = [NoInput EXCEPT !.index = rIdx[t]]]
  /\ \E st \in HandleStatus \cup {"badstr"} :
       CASE st = "fail" -> ReadFail(t, "InputName", "SessionGetInputName")
         [] st = "null" -> ReadPanic(t)
         [] st = "badstr" -> ReadFail(t, "CStringConversion", "char_p_to_string")
         [] st = "ok" -> /\ rpc' = [rpc EXCEPT ![t] = "typeinfo"]
                         /\ UNCHANGED <<rRes, rNull>>
  /\ rUnchanged
  /\ UNCHANGED <<rCount, rIdx, tiAcq, tiRel, rAcc, rList>>

\* Variant without the assert_ne! on typeinfo_ptr.
ReadInputTypeInfo_unchecked(t) ==
  /\ rpc[t] = "typeinfo"
  /\ \E st \in HandleStatus :
       CASE st = "fail" -> ReadFail(t, "InputName", "SessionGetInputTypeInfo") /\ UNCHANGED tiAcq
         [] st = "null" -> /\ rNull' = [rNull EXCEPT ![t] = TRUE]
                           /\ tiAcq' = [tiAcq EXCEPT ![t] = @ + 1]
                           /\ rpc' = [rpc EXCEPT ![t] = "cast"]
                           /\ UNCHANGED rRes
         [] st = "ok" -> /\ tiAcq' = [tiAcq EXCEPT ![t] = @ + 1]
                         /\ rpc' = [rpc EXCEPT ![t] = "cast"]
                         /\ UNCHANGED <<rRes, rNull>>
  /\ rUnchanged
  /\ UNCHANGED <<rCount, rIdx, tiRel, rCur, rAcc, rList, rCalled>>

\* Lines 163-173: SessionGetInputTypeInfo; on success the type-info handle
\* typeinfo_ptr is owned by read_input.
ReadInputTypeInfo(t) ==
  /\ rpc[t] = "typeinfo"
  /\ \E st \in HandleStatus :
       CASE st = "fail" -> ReadFail(t, "InputName", "SessionGetInputTypeInfo") /\ UNCHANGED tiAcq
         [] st = "null" -> ReadPanic(t) /\ UNCHANGED tiAcq
         [] st = "ok" -> /\ tiAcq' = [tiAcq EXCEPT ![t] = @ + 1]
                         /\ rpc' = [rpc EXCEPT ![t] = "cast"]
                         /\ UNCHANGED <<rRes, rNull>>
  /\ rUnchanged
  /\ UNCHANGED <<rCount, rIdx, tiRel, rCur, rAcc, rList, rCalled>>

\* Lines 175-180: CastTypeInfoToTensorInfo.
ReadInputCast(t) ==
  /\ rpc[t] = "cast"
  /\ \E st \in HandleStatus :
       CASE st = "fail" -> ReadFail(t, "InputName", "CastTypeInfoToTensorInfo")
         [] st = "null" -> ReadPanic(t)
         [] st = "ok" -> /\ rpc' = [rpc EXCEPT ![t] = "elemtype"]
                         /\ UNCHANGED <<rRes, rNull>>
  /\ rUnchanged
  /\ UNCHANGED <<rCount, rIdx, tiAcq, tiRel, rCur, rAcc, rList, rCalled>>

\* Lines 182-189: GetTensorElementType; a zero code fails assert_ne!, any
\* other code is transmuted into a TensorElementDataType.
ReadInputElemType(t) ==
  /\ rpc[t] = "elemtype"
  /\ \/ /\ ReadFail(t, "InputName", "GetTensorElementType")
        /\ UNCHANGED rCur
     \/ \E c \in ElemCodes :
          IF c = 0
          THEN ReadPanic(t) /\ UNCHANGED rCur
          ELSE \E ty \in Transmute(c) :
                 IF ty = "abort"
                 THEN /\ rRes' = [rRes EXCEPT ![t] = Err("abort")]
                      /\ rpc' = [rpc EXCEPT ![t] = "aborted"]
                      /\ UNCHANGED <<rCur, rNull>>
                 ELSE /\ rCur' = [rCur EXCEPT ![t].code = c, ![t].input_type = ty]
                      /\ rpc' = [rpc EXCEPT ![t] = "numdims"]
                      /\ UNCHANGED <<rRes, rNull>>
  /\ rUnchanged
  /\ UNCHANGED <<rCount, rIdx, tiAcq, tiRel, rAcc, rList, rCalled>>

\* Lines 194-198: GetDimensionsCount; zero dimensions fail assert_ne!.
ReadInputNumDims(t) ==
  /\ rpc[t] = "numdims"
  /\ \/ /\ ReadFail(t, "InputName", "GetDimensionsCount")
        /\ UNCHANGED rCur
     \/ \E nd \in 0..MaxRank :
          IF nd = 0
          THEN ReadPanic(t) /\ UNCHANGED rCur
          ELSE /\ rCur' = [rCur EXCEPT ![t].numdims = nd]
               /\ rpc' = [rpc EXCEPT ![t] = "dims"]
               /\ UNCHANGED <<rRes, rNull>>
  /\ rUnchanged
  /\ UNCHANGED <<rCount, rIdx, tiAcq, tiRel, rAcc, rList, rCalled>>

\* The Input of lines 217-221: dimensions mapped with `d as u32`.
InputOf(cur, dv) ==
  [index |-> cur.index, input_type |-> cur.input_type,
   dimensions |-> [k \in DOMAIN dv |-> AsU32(dv[k])]]

\* Variant of read_inputs skipping an input whose GetDimensions fails.
ReadInputDims_skipping(t) ==
  /\ rpc[t] = "dims"
  /\ \E st \in Status :
       IF st = "fail"
       THEN /\ UNCHANGED <<tiRel, rCur, rAcc>>
            /\ rIdx' = [rIdx EXCEPT ![t] = @ + 1]
            /\ IF rIdx[t] + 1 < rCount[t]
               THEN /\ rpc' = [rpc EXCEPT ![t] = "name"]
                    /\ UNCHANGED <<rRes, rList>>
               ELSE /\ rpc' = [rpc EXCEPT ![t] = "done"]
                    /\ rRes' = [rRes EXCEPT ![t] = OkRes]
                    /\ rList' = [rList EXCEPT ![t] = rAcc[t]]
       ELSE \E dv \in [1..rCur[t].numdims -> DimVals] :
            LET inp == InputOf(rCur[t], dv) IN
            /\ rCur' = [rCur EXCEPT ![t].ndims = dv,
                                    ![t].dimensions = inp.dimensions]
            /\ tiRel' = [tiRel EXCEPT ![t] = @ + 1]
            /\ rAcc' = [rAcc EXCEPT ![t] = Append(@, inp)]
            /\ rIdx' = [rIdx EXCEPT ![t] = @ + 1]
            /\ IF rIdx[t] + 1 < rCount[t]
               THEN /\ rpc' = [rpc EXCEPT ![t] = "name"]
                    /\ UNCHANGED <<rRes, rList>>
               ELSE /\ rpc' = [rpc EXCEPT ![t] = "done"]
                    /\ rRes' = [rRes EXCEPT ![t] = OkRes]
                    /\ rList' = [rList EXCEPT ![t] = Append(rAcc[t], inp)]
  /\ rUnchanged
  /\ UNCHANGED <<rCount, tiAcq, rCalled, rNull>>

\* Lines 201-221: GetDimensions into a vector of num_dims entries; on success
\* ReleaseTypeInfo and Ok(Input); read_inputs (227-229) collects into a
\* Result<Vec<Input>>: next index, or Ok with every Input; an error drops the
\* partial vector.
ReadInputDims(t) ==
  /\ rpc[t] = "dims"
  /\ \E st \in Status :
       IF st = "fail"
       THEN /\ ReadFail(t, "InputName", "GetDimensions")
            /\ UNCHANGED <<tiRel, rIdx, rCur, rAcc, rList>>
       ELSE \E dv \in [1..rCur[t].numdims -> DimVals] :
            LET inp == InputOf(rCur[t], dv) IN
            /\ rCur' = [rCur EXCEPT ![t].ndims = dv,
                                    ![t].dimensions = inp.dimensions]
            /\ tiRel' = [tiRel EXCEPT ![t] = @ + 1]
            /\ rAcc' = [rAcc EXCEPT ![t] = Append(@, inp)]
            /\ rIdx' = [rIdx EXCEPT ![t] = @ + 1]
            /\ UNCHANGED rNull
            /\ IF rIdx[t] + 1 < rCount[t]
               THEN /\ rpc' = [rpc EXCEPT ![t] = "name"]
                    /\ UNCHANGED <<rRes, rList>>
               ELSE /\ rpc' = [rpc EXCEPT ![t] = "done"]
                    /\ rRes' = [rRes EXCEPT ![t] = OkRes]
                    /\ rList' = [rList EXCEPT ![t] = Append(rAcc[t], inp)]
  /\ rUnchanged
  /\ UNCHANGED <<rCount, tiAcq, rCalled>>

BuildStep(t) ==
  \/ NewSessionBuilder(t)
  \/ WithCuda(t)
  \/ BuildCreateOptions(t)
  \/ BuildLockEnv(t)
  \/ BuildUnlockEnv(t)
  \/ BuildExists(t)
  \/ BuildPath(t)
  \/ BuildCreateSessionCall(t)
  \/ BuildCreateSessionReturn(t)
  \/ BuildAllocator(t)
  \/ BuilderDrop(t)
  \/ DropSession(t)

ReadStep(t) ==
  \/ ReadInputsStart(t)
  \/ ReadInputsCount(t)
  \/ ReadInputName(t)
  \/ ReadInputTypeInfo(t)
  \/ ReadInputCast(t)
  \/ ReadInputElemType(t)
  \/ ReadInputNumDims(t)
  \/ ReadInputDims(t)

\* Host threads building sessions concurrently on one environment.
SessNext ==
  \/ DropEnvironment
  \/ \E t \in Threads : BuildStep(t)

SessionInit == SessInit /\ TensInitial

SessionSpec == SessionInit /\ [][SessNext]_vars

\* One host thread building a session and reading its inputs.
IntrospectNext ==
  \/ DropEnvironment
  \/ BuildStep(1)
  \/ ReadStep(1)

IntrospectSpec == SessionInit /\ [][IntrospectNext]_vars

\* ---------------------------------------------------------------------------
\* Output tensors: DynOrtTensor::try_extract (ort_owned_tensor.rs 88-106)
\* ---------------------------------------------------------------------------

\* TensorElementDataType values and the Rust types T that map to them
\* (TensorDataToType::tensor_element_data_type, tensor.rs).
ElemTypes == {"Float", "Int64", "String"}
RustTypes == {"f32", "i64", "String"}
TensorElementDataTypeOf(T) ==
  CASE T = "f32" -> "Float" [] T = "i64" -> "Int64" [] T = "String" -> "String"

RECURSIVE Product(_)
Product(s) == IF s = <<>> THEN 1 ELSE Head(s) * Product(Tail(s))

\* Declared shapes of output tensors (ndarray dimension D).
Shapes == UNION {[1..r -> 1..MaxDim] : r \in 1..MaxRank}

\* TensorData (tensor.rs) built by Session::run for an output value: numeric
\* types keep the native buffer, strings are read back into an owned Array.
TensorDataOf(et, shape) ==
  [kind |-> IF et = "String" THEN "Strings" ELSE "TensorPtr",
   elems |-> [i \in 1..Product(shape) |-> i]]

\* TensorDataToType::extract_typed_data (tensor.rs): the view over the native
\* buffer (from_shape_ptr) or the owned string Array (from_shape_vec); the
\* native data access may report an error status, turned into OrtError.
extract_typed_data(shape, tensor_data, st) ==
  IF st = "fail"
  THEN [kind |-> "OrtError"]
  ELSE [kind |-> tensor_data.kind, shape |-> shape,
        elems |-> SubSeq(tensor_data.elems, 1, Product(shape))]

\* Variant building the Strings view over the flat element list.
OrtOwnedTensor_new_flat(data) ==
  IF data.kind = "TensorPtr"
  THEN [shape |-> data.shape, elems |-> data.elems]
  ELSE [shape |-> <<Len(data.elems)>>, elems |-> data.elems]

\* OrtOwnedTensor::new (128-149): a view of the TensorPtr view, or a view of the
\* owned Strings array.
OrtOwnedTensor_new(data) ==
  IF data.kind = "TensorPtr"
  THEN [shape |-> data.shape, elems |-> data.elems]
  ELSE [shape |-> data.shape, elems |-> data.elems]

\* TensorExtractError::DataTypeMismatch (18-36).
DataTypeMismatch(actual, requested) ==
  [kind |-> "DataTypeMismatch", actual |-> actual, requested |-> requested]

\* Variant with the mismatch error's fields swapped.
try_extract_swapped(d, T, st) ==
  IF d.data_type # TensorElementDataTypeOf(T)
  THEN DataTypeMismatch(TensorElementDataTypeOf(T), d.data_type)
  ELSE LET data == extract_typed_data(d.shape, d.tensor_data, st)
       IN IF data.kind = "OrtError"
          THEN [kind |-> "OrtError"]
          ELSE [kind |-> "Ok", view |-> OrtOwnedTensor_new(data)]

\* DynOrtTensor::try_extract (88-106), for requested type T and the native
\* status st of the data access.
try_extract(d, T, st) ==
  IF d.data_type # TensorElementDataTypeOf(T)
  THEN DataTypeMismatch(d.data_type, TensorElementDataTypeOf(T))
  ELSE LET data == extract_typed_data(d.shape, d.tensor_data, st)
       IN IF data.kind = "OrtError"
          THEN [kind |-> "OrtError"]
          ELSE [kind |-> "Ok", view |-> OrtOwnedTensor_new(data)]

TensInit ==
  /\ \E et \in ElemTypes, sh \in Shapes :
       dyn = [data_type |-> et, shape |-> sh, tensor_data |-> TensorDataOf(et, sh)]
  /\ alive = TRUE
  /\ holderPtr = "value"
  /\ valueRel = 0
  /\ nExtract = 0
  /\ lastReq = "none"
  /\ lastRes = NoResult
  /\ views = {}

\* Variant of the call that takes the owned strings out of the tensor's
\* TensorData (std::mem::take on each element) while extracting them.
TryExtract_taking ==
  /\ alive
  /\ nExtract < MaxExtract
  /\ \E T \in RustTypes, st \in Status :
       LET r == try_extract(dyn, T, st) IN
       /\ lastReq' = TensorElementDataTypeOf(T)
       /\ lastRes' = r
       /\ views' = IF r.kind = "Ok" THEN views \cup {r.view} ELSE views
       /\ dyn' = IF r.kind = "Ok" /\ dyn.tensor_data.kind = "Strings"
                 THEN [dyn EXCEPT !.tensor_data.elems =
                         [k \in DOMAIN dyn.tensor_data.elems |-> 0]]
                 ELSE dyn
  /\ nExtract' = nExtract + 1
  /\ UNCHANGED <<alive, holderPtr, valueRel>>
  /\ UNCHANGED sessVars

\* A call dyn.try_extract::<T>() (&self: the tensor is borrowed, not consumed).
TryExtract ==
  /\ alive
  /\ nExtract < MaxExtract
  /\ \E T \in RustTypes, st \in Status :
       LET r == try_extract(dyn, T, st) IN
       /\ lastReq' = TensorElementDataTypeOf(T)
       /\ lastRes' = r
       /\ views' = IF r.kind = "Ok" THEN views \cup {r.view} ELSE views
  /\ nExtract' = nExtract + 1
  /\ UNCHANGED <<dyn, alive, holderPtr, valueRel>>
  /\ UNCHANGED sessVars

\* Dropping the DynOrtTensor drops its TensorPointerHolder (200-219):
\* ReleaseValue, then tensor_ptr = null.
DropTensor ==
  /\ alive
  /\ alive' = FALSE
  /\ valueRel' = valueRel + 1
  /\ holderPtr' = "null"
  /\ UNCHANGED <<dyn, nExtract, lastReq, lastRes, views>>
  /\ UNCHANGED sessVars

TensNext == TryExtract \/ DropTensor

TensorInit == TensInit /\ SessInit

TensorSpec == TensorInit /\ [][TensNext]_vars

\* ===========================================================================
\* Properties
\* ===========================================================================

\* C1: every type-info handle obtained by read_input and every output value
\* held by a TensorPointerHolder is released exactly once on every path.
C1_HandlesReleasedOnce ==
  /\ \A t \in Threads :
       /\ tiRel[t] <= tiAcq[t]
       /\ rpc[t] = "done" => tiRel[t] = tiAcq[t]
  /\ valueRel <= 1
  /\ ~alive => valueRel = 1

\* C2: once SessionGetInputTypeInfo returned a handle, no error return of
\* read_input leaves it unreleased.
C2_TypeInfoReleasedOnError ==
  \A t \in Threads :
    (rpc[t] = "done" /\ rRes[t].kind # "Ok") => tiRel[t] = tiAcq[t]

\* C3: build releases the session options it allocated on every return path.
C3_SessionOptionsReleased ==
  \A t \in Threads : bpc[t] = "done" => optsRel[t] = optsAlloc[t]

\* C4: a Session's handles are non-null for its lifetime, and destroying it
\* releases both handles exactly once.
C4_SessionHandles ==
  \A t \in Threads :
    /\ sess[t] # "none" => sessPtr[t] # 0 /\ allocPtr[t] # 0
    /\ sess[t] = "live" => sessRel[t] = 0 /\ allocRel[t] = 0
    /\ sess[t] = "dropped" => sessRel[t] = 1 /\ allocRel[t] = 1

\* C5: the environment's native context is not torn down while a Session
\* created from it is alive.
C5_EnvOutlivesSessions ==
  \A t \in Threads : sess[t] = "live" => envLive /\ envRef > 0

\* C6 (as stated): for a model path that does not exist, build fails with
\* FileDoesNotExists carrying that path and never calls CreateSession.
C6_MissingPathFileNotFound ==
  \A t \in Threads :
    (bpc[t] \in {"ret", "done"} /\ ~Exists(bPath[t]))
      => bRes[t] = FileDoesNotExists(bPath[t]) /\ createCalls[t] = 0

\* C6 (amended): for a model path that does not exist, build never calls
\* CreateSession; it fails with FileDoesNotExists carrying that path unless it
\* stopped earlier, with a SessionOptions error (CreateSessionOptions failed)
\* or a panic (options given through with_options, with_cuda, or a null
\* options handle).
C6_MissingPathNoCreateSession ==
  \A t \in Threads :
    (bpc[t] \in {"ret", "done"} /\ ~Exists(bPath[t]))
      => /\ createCalls[t] = 0
         /\ \/ bRes[t] = FileDoesNotExists(bPath[t])
            \/ bRes[t].kind = "SessionOptions" /\ optsAlloc[t] = 0
            \/ bRes[t] = Err("panic") /\ (bWithOpts[t] \/ bNull[t])
            \/ bRes[t] = WithCudaPanic

C6_Witness ==
  \E t \in Threads :
    bpc[t] = "done" /\ ~Exists(bPath[t]) /\ bRes[t] = FileDoesNotExists(bPath[t])

\* C7: every CreateSession call runs while its thread holds the environment
\* mutex.
C7_CreateSessionUnderLock ==
  \A t \in Threads : bpc[t] = "creating" => lock = t

\* C8: a try_extract with a type other than the declared one returns
\* DataTypeMismatch{actual, requested} and leaves the tensor unchanged.
C8_MismatchError ==
  [][(nExtract' = nExtract + 1 /\ lastReq' # dyn.data_type)
       => /\ lastRes' = DataTypeMismatch(dyn.data_type, lastReq')
          /\ dyn' = dyn /\ alive' = alive
          /\ holderPtr' = holderPtr /\ views' = views]_vars

C8_Witness ==
  /\ nExtract >= 2 /\ lastReq # "none" /\ lastReq # dyn.data_type
  /\ lastRes = DataTypeMismatch(dyn.data_type, lastReq)

\* C9 (as stated): try_extract with the declared type succeeds, with the
\* declared shape and as many elements as the shape's product.
C9_ExtractDeclaredType ==
  (nExtract > 0 /\ lastReq = dyn.data_type)
    => /\ lastRes.kind = "Ok"
       /\ lastRes.view.shape = dyn.shape
       /\ Len(lastRes.view.elems) = Product(dyn.shape)

\* C9 (amended): try_extract with the declared type never reports a type
\* mismatch; it either propagates the native data-access error (OrtError) or
\* succeeds with the declared shape and the shape's product of elements.
C9_ExtractDeclaredShape ==
  (nExtract > 0 /\ lastReq = dyn.data_type)
    => /\ lastRes.kind \in {"Ok", "OrtError"}
       /\ lastRes.kind = "Ok" =>
            /\ lastRes.view.shape = dyn.shape
            /\ Len(lastRes.view.elems) = Product(dyn.shape)

C9_Witness ==
  /\ lastReq = dyn.data_type /\ lastRes.kind = "Ok"
  /\ dyn.tensor_data.kind = "Strings" /\ Len(dyn.shape) = 2

\* C10 (as stated): after any extractions the tensor is intact, a further
\* try_extract with the declared type succeeds, all successful ones agree.
C10_RetrySucceeds ==
  /\ alive => holderPtr = "value" /\ valueRel = 0
  /\ Cardinality(views) <= 1
  /\ (nExtract > 0 /\ lastReq = dyn.data_type) => lastRes.kind = "Ok"

\* C10 (amended): extraction never consumes or invalidates the tensor: its
\* output value stays held and unreleased, its fields never change, a further
\* extraction with the declared type succeeds or fails only with OrtError,
\* and all successful extractions return equal views.
C10_NotConsumed ==
  /\ [](/\ alive => holderPtr = "value" /\ valueRel = 0
        /\ Cardinality(views) <= 1
        /\ (nExtract > 0 /\ lastReq = dyn.data_type)
             => lastRes.kind \in {"Ok", "OrtError"})
  /\ [][nExtract' # nExtract
        => /\ dyn' = dyn /\ alive' = alive
           /\ holderPtr' = holderPtr /\ valueRel' = valueRel]_vars

C10_Witness ==
  /\ alive /\ nExtract >= 2 /\ Cardinality(views) = 1
  /\ lastReq = dyn.data_type /\ lastRes.kind = "Ok"

\* C11: read_input never yields a TensorElementDataType from a code that is
\* not a member of the enum (such codes must be rejected with an error).
C11_KnownElementTypes ==
  \A t \in Threads :
    rCur[t].input_type # "none" => rCur[t].code \in RecognizedCodes

\* C12: an Input's dimensions have the native count, each d >= 0 kept as the
\* size d and each negative d kept as a dynamic marker.
C12_DimensionsFaithful ==
  LET Size(d) == [hi |-> d \div 65536, lo |-> d % 65536]
      Dynamic == [dynamic |-> TRUE] IN
  \A t \in Threads :
    rCur[t].ndims # <<>> =>
      /\ Len(rCur[t].ndims) = rCur[t].numdims
      /\ Len(rCur[t].dimensions) = rCur[t].numdims
      /\ \A k \in 1..rCur[t].numdims :
           /\ rCur[t].ndims[k] >= 0 => rCur[t].dimensions[k] = Size(rCur[t].ndims[k])
           /\ rCur[t].ndims[k] < 0 => rCur[t].dimensions[k] = Dynamic

\* C13: the value handed to SetIntraOpNumThreads is within 1..32767.
C13_ThreadCountPositive ==
  \A t \in Threads :
    \A n \in intraThreads[t] : n \in 1..32767

\* C14: read_inputs reads indices 0, 1, ... in order, stops at the first
\* failing index (no calls for later ones, no partial list), and on success
\* returns input_count Inputs in index order.
C14_ReadInputsFailFast ==
  \A t \in Threads :
    rpc[t] = "done" =>
      /\ rCalled[t] = [k \in 1..Len(rCalled[t]) |-> k - 1]
      /\ rRes[t] = OkRes =>
           /\ Len(rCalled[t]) = rCount[t]
           /\ Len(rList[t]) = rCount[t]
           /\ \A k \in 1..Len(rList[t]) : rList[t][k].index = k - 1
      /\ rRes[t] # OkRes =>
           /\ rList[t] = <<>>
           /\ Len(rCalled[t]) \in {0, rIdx[t] + 1}

C14_Witness ==
  /\ rpc[1] = "done" /\ rRes[1].kind = "InputName" /\ rIdx[1] = 1
  /\ rCount[1] = 2 /\ rAcc[1] # <<>>

\* The error kind each native call's error status is reported as.
StatusErrorKind(call) ==
  CASE call = "CreateSessionOptions" -> "SessionOptions"
    [] call = "CreateSession" -> "Session"
    [] call = "GetAllocatorWithDefaultOptions" -> "Allocator"
    [] call = "SessionGetInputCount" -> "Allocator"
    [] call \in {"SessionGetInputName", "SessionGetInputTypeInfo",
                 "CastTypeInfoToTensorInfo", "GetTensorElementType",
                 "GetDimensionsCount", "GetDimensions"} -> "InputName"

\* C15: a native call reporting success with a null handle, or an impossible
\* value (zero count, code or rank), makes the operation panic; an error
\* status is returned as the error kind of that call, never as a panic.
C15_NullHandlesPanic ==
  \A t \in Threads :
    /\ bpc[t] \in {"ret", "done"} =>
         /\ bNull[t] => bRes[t] = Err("panic")
         /\ bRes[t] = Err("panic") => bNull[t] \/ bWithOpts[t]
    /\ rpc[t] = "done" => (rNull[t] <=> rRes[t] = Err("panic"))
    /\ "call" \in DOMAIN bRes[t] => bRes[t].kind = StatusErrorKind(bRes[t].call)
    /\ ("call" \in DOMAIN rRes[t] /\ rRes[t].call # "char_p_to_string")
         => rRes[t].kind = StatusErrorKind(rRes[t].call)

C15_Witness ==
  /\ bpc[1] = "done" /\ bRes[1] = OkRes
  /\ rpc[1] = "done" /\ rNull[1] /\ rRes[1] = Err("panic") /\ tiAcq[1] = 0

====
